---- MODULE Spec2Model ----
(***************************************************************************)
(* NoteEase: the note store (src/store/useStore.ts) and its AsyncStorage   *)
(* persistence, as a state machine.                                        *)
(*                                                                         *)
(* Strings are sequences of one-character strings, so that trim,           *)
(* toLowerCase and includes are computed.  Timestamps are held as the      *)
(* millisecond value of the Date: toISOString and new Date(iso).getTime()  *)
(* are exact inverses at millisecond resolution for the dates the clock    *)
(* produces.                                                               *)
(***************************************************************************)
EXTENDS Integers, Sequences, FiniteSets, TLC

VARIABLES
    notes,              \* AppState.notes
    filteredNotes,      \* AppState.filteredNotes
    activeCategory,     \* AppState.activeCategory
    searchQuery,        \* AppState.searchQuery
    isDarkMode,         \* AppState.isDarkMode
    isInitialized,      \* AppState.isInitialized
    customCategories,   \* AppState.customCategories
    storage,            \* AsyncStorage: key -> stored string or null
    pending,            \* AsyncStorage.setItem requests issued and not yet completed
    now,                \* the clock, Date.now()
    pc,                 \* per caller: position inside initialize / resetAppData
    loc,                \* per caller: locals of the running async call
    history             \* what has happened so far and what the specification
                        \* studies (not program state)

store == <<notes, filteredNotes, activeCategory, searchQuery, isDarkMode,
           isInitialized, customCategories>>
vars == <<notes, filteredNotes, activeCategory, searchQuery, isDarkMode,
          isInitialized, customCategories, storage, pending, now, pc, loc,
          history>>

----------------------------------------------------------------------------
(* Bounds *)

MaxNotes == 1       \* addNote is disabled once the collection has this many notes
MaxClock == 2       \* the clock stops advancing here
MaxPending == 1     \* a command that schedules writes needs room for them
MaxLen == 2         \* longest collection SpecFilter starts from
MaxBurst == 3       \* writes in flight where SpecBurst lets commands follow each other

----------------------------------------------------------------------------
(* Strings *)

STORAGE_KEY == "noteease-data"
THEME_KEY == "noteease-theme"
CUSTOM_CATEGORIES_KEY == "noteease-categories"
Keys == {STORAGE_KEY, THEME_KEY, CUSTOM_CATEGORIES_KEY}

EMPTY == <<>>
ALL == <<"a", "l", "l">>
PERSONAL == <<"p", "e", "r", "s", "o", "n", "a", "l">>
WORK == <<"w", "o", "r", "k">>
FAMILY == <<"f", "a", "m", "i", "l", "y">>

Whitespace == {" "}

toLowerCaseChar(c) ==
    CASE c = "A" -> "a"
      [] c = "B" -> "b"
      [] c = "W" -> "w"
      [] OTHER -> c

toLowerCase(s) == [i \in 1..Len(s) |-> toLowerCaseChar(s[i])]

RECURSIVE trimStart(_)
trimStart(s) ==
    IF Len(s) > 0 /\ Head(s) \in Whitespace THEN trimStart(Tail(s)) ELSE s

RECURSIVE trimEnd(_)
trimEnd(s) ==
    IF Len(s) > 0 /\ s[Len(s)] \in Whitespace
    THEN trimEnd(SubSeq(s, 1, Len(s) - 1))
    ELSE s

trim(s) == trimEnd(trimStart(s))

\* JavaScript truthiness of a string: the empty string is falsy
truthy(s) == Len(s) > 0

includes(s, q) ==
    \E i \in 0..(Len(s) - Len(q)) : SubSeq(s, i + 1, i + Len(q)) = q

\* Array.prototype.includes
arrayIncludes(arr, x) == \E i \in 1..Len(arr) : arr[i] = x

----------------------------------------------------------------------------
(* filterNotes *)

\* Faulty variant: oldest first within a pinned group
compareNotes_oldestFirst(a, b) ==
    IF a.isPinned /\ ~b.isPinned THEN -1
    ELSE IF ~a.isPinned /\ b.isPinned THEN 1
    ELSE a.createdAt - b.createdAt

compareNotes(a, b) ==
    IF a.isPinned /\ ~b.isPinned THEN -1
    ELSE IF ~a.isPinned /\ b.isPinned THEN 1
    ELSE b.createdAt - a.createdAt

\* Array.prototype.sort is stable: an element is placed behind every element
\* already placed that does not compare greater than it.
RECURSIVE insertSorted(_, _)
insertSorted(sorted, x) ==
    IF sorted = <<>> THEN <<x>>
    ELSE IF compareNotes(Head(sorted), x) <= 0
         THEN <<Head(sorted)>> \o insertSorted(Tail(sorted), x)
         ELSE <<x>> \o sorted

RECURSIVE sortNotes(_)
sortNotes(arr) ==
    IF arr = <<>> THEN <<>>
    ELSE insertSorted(sortNotes(SubSeq(arr, 1, Len(arr) - 1)), arr[Len(arr)])

\* Faulty variant: the trash is not filtered out
notDeleted_keepsTrash(note) == TRUE

notDeleted(note) == ~note.isDeleted

\* Faulty variant: categories compared without regard to case
categoryMatches_ignoringCase(note, category) ==
    toLowerCase(note.category) = toLowerCase(category)

categoryMatches(note, category) == note.category = category

\* Faulty variant: the query is trimmed before it is searched for
searchText_trimmed(search) == toLowerCase(trim(search))

\* const query = searchQuery.toLowerCase()
searchText(search) == toLowerCase(search)

matchesQuery(note, query) ==
    \/ includes(toLowerCase(note.title), query)
    \/ includes(toLowerCase(note.content), query)

\* filterNotes(notesArray) reading activeCategory and searchQuery from get()
filterNotes(notesArray, category, search) ==
    LET live == SelectSeq(notesArray, notDeleted)
        inCategory(note) == categoryMatches(note, category)
        byCategory == IF category # ALL THEN SelectSeq(live, inCategory) ELSE live
        query == searchText(search)
        hit(note) == matchesQuery(note, query)
        bySearch == IF truthy(trim(search)) THEN SelectSeq(byCategory, hit)
                    ELSE byCategory
    IN  sortNotes(bySearch)

----------------------------------------------------------------------------
(* AsyncStorage and JSON *)

\* getItem's answer for a missing key
NULL == [kind |-> "null"]

\* A stored string is a sequence of JSON tokens.  An array element (a note
\* or a category name) is one token that carries the element: its fields
\* are strings and booleans, which JSON writes and reads back unchanged.
token(t) == [tok |-> t]
item(x) == [tok |-> "item", value |-> x]
string(tokens) == [kind |-> "string", tokens |-> tokens]

\* A stored text that JSON.parse rejects, and the text "null"
GARBAGE == string(<<token("{")>>)
JSONNULL == string(<<token("null")>>)

\* The values the store hands to JSON.stringify: a boolean or an array
jsonBoolean(b) == [type |-> "boolean", value |-> b]
jsonArray(arr) == [type |-> "array", value |-> arr]

JSONstringify(json) ==
    IF json.type = "boolean"
    THEN string(<<token(IF json.value THEN "true" ELSE "false")>>)
    ELSE string(<<token("[")>>
                \o [k \in DOMAIN json.value |-> item(json.value[k])]
                \o <<token("]")>>)

isArrayText(tokens) ==
    /\ Len(tokens) >= 2
    /\ tokens[1] = token("[")
    /\ tokens[Len(tokens)] = token("]")
    /\ \A k \in 2..(Len(tokens) - 1) : tokens[k].tok = "item"

parses(text) ==
    \/ text.tokens \in {<<token("true")>>, <<token("false")>>, <<token("null")>>}
    \/ isArrayText(text.tokens)

jsNull == [null |-> TRUE]

\* Faulty variant: the last element of an array is lost
JSONparse_dropsLast(text) ==
    IF text.tokens = <<token("null")>> THEN jsNull
    ELSE IF text.tokens = <<token("true")>> THEN TRUE
    ELSE IF text.tokens = <<token("false")>> THEN FALSE
    ELSE [k \in 1..(Len(text.tokens) - 3) |-> text.tokens[k + 1].value]

JSONparse(text) ==
    IF text.tokens = <<token("null")>> THEN jsNull
    ELSE IF text.tokens = <<token("true")>> THEN TRUE
    ELSE IF text.tokens = <<token("false")>> THEN FALSE
    ELSE [k \in 1..(Len(text.tokens) - 2) |-> text.tokens[k + 1].value]

\* if (savedNotesString): null and the empty string are falsy
stringTruthy(text) == text.kind = "string" /\ Len(text.tokens) > 0

emptyStorage == [k \in Keys |-> NULL]

\* AsyncStorage.setItem(key, value), issued; it completes later.  Requests
\* are kept per key: the texts that are on their way to that record.
noWrites == [k \in Keys |-> {}]
setItem(key, value) == [k \in Keys |-> IF k = key THEN {value} ELSE {}]

\* Faulty variant: a new write of a record takes the place of the writes of
\* that record that are still in flight
withWrites_superseding(a, b) == [k \in Keys |-> IF b[k] # {} THEN b[k] ELSE a[k]]

withWrites(a, b) == [k \in Keys |-> a[k] \cup b[k]]
inFlight(p) ==
    Cardinality(p[STORAGE_KEY]) + Cardinality(p[THEME_KEY])
        + Cardinality(p[CUSTOM_CATEGORIES_KEY])

saveNotes(notesArg) == setItem(STORAGE_KEY, JSONstringify(jsonArray(notesArg)))
saveTheme(dark) == setItem(THEME_KEY, JSONstringify(jsonBoolean(dark)))
saveCategories(categories) ==
    setItem(CUSTOM_CATEGORIES_KEY, JSONstringify(jsonArray(categories)))

\* The number of writes that may be in flight together
room == IF "burst" \in history.track THEN MaxBurst ELSE MaxPending

hasRoom(writes) == inFlight(withWrites(pending, writes)) <= room

\* Faulty variant: a failed write leaves the record erased
setItemCompletes_failureErases(key, value, ok) ==
    /\ value \in pending[key]
    /\ pending' = [pending EXCEPT ![key] = @ \ {value}]
    /\ storage' = [storage EXCEPT ![key] = IF ok THEN value ELSE NULL]
    /\ UNCHANGED <<store, now, pc, loc>>

\* A setItem request completes: the record is replaced, or the write fails
\* and the record keeps its value (the failure is only logged).
setItemCompletes(key, value, ok) ==
    /\ value \in pending[key]
    /\ pending' = [pending EXCEPT ![key] = @ \ {value}]
    /\ storage' = IF ok THEN [storage EXCEPT ![key] = value] ELSE storage
    /\ UNCHANGED <<store, now, pc, loc>>

----------------------------------------------------------------------------
(* Synchronous commands of the store *)

generateId(time, random) == [t |-> time, r |-> random]

isBuiltin(category) == category \in {ALL, PERSONAL, WORK, FAMILY}

\* Faulty variant: the name is appended without looking for it in the registry
addCustomCategoryEffect_unchecked(registry, category) ==
    IF ~truthy(trim(category))
    THEN [customCategories |-> registry, writes |-> noWrites]
    ELSE [customCategories |-> Append(registry, category),
          writes |-> saveCategories(Append(registry, category))]

\* addCustomCategory's effect on the registry and the write it schedules
addCustomCategoryEffect(registry, category) ==
    IF ~truthy(trim(category)) \/ arrayIncludes(registry, category)
    THEN [customCategories |-> registry, writes |-> noWrites]
    ELSE [customCategories |-> Append(registry, category),
          writes |-> saveCategories(Append(registry, category))]

toggleTheme ==
    /\ hasRoom(saveTheme(~isDarkMode))
    /\ isDarkMode' = ~isDarkMode
    /\ pending' = withWrites(pending, saveTheme(~isDarkMode))
    /\ UNCHANGED <<notes, filteredNotes, activeCategory, searchQuery, isInitialized,
                   customCategories, storage, now, pc, loc>>

addCustomCategory(category) ==
    LET eff == addCustomCategoryEffect(customCategories, category)
    IN  /\ hasRoom(eff.writes)
        /\ customCategories' = eff.customCategories
        /\ pending' = withWrites(pending, eff.writes)
        /\ UNCHANGED <<notes, filteredNotes, activeCategory, searchQuery, isDarkMode,
                       isInitialized, storage, now, pc, loc>>

\* Faulty variant: the notes tagged with the removed name are moved to 'personal'
removeCustomCategory_retags(category) ==
    LET other(cat) == cat # category
        updatedCategories == SelectSeq(customCategories, other)
        retagged(note) == IF note.category = category
                          THEN [note EXCEPT !.category = PERSONAL] ELSE note
    IN  /\ hasRoom(saveCategories(updatedCategories))
        /\ customCategories' = updatedCategories
        /\ notes' = [k \in DOMAIN notes |-> retagged(notes[k])]
        /\ pending' = withWrites(pending, saveCategories(updatedCategories))
        /\ UNCHANGED <<filteredNotes, activeCategory, searchQuery, isDarkMode,
                       isInitialized, storage, now, pc, loc>>

removeCustomCategory(category) ==
    LET other(cat) == cat # category
        updatedCategories == SelectSeq(customCategories, other)
    IN  /\ hasRoom(saveCategories(updatedCategories))
        /\ customCategories' = updatedCategories
        /\ pending' = withWrites(pending, saveCategories(updatedCategories))
        /\ UNCHANGED <<notes, filteredNotes, activeCategory, searchQuery, isDarkMode,
                       isInitialized, storage, now, pc, loc>>

\* Faulty variant: the view is computed from the collection before the mutation
commitNotes_staleView(updatedNotes, registerCategory, category) ==
    LET eff == IF registerCategory
               THEN addCustomCategoryEffect(customCategories, category)
               ELSE [customCategories |-> customCategories, writes |-> noWrites]
        writes == withWrites(saveNotes(updatedNotes), eff.writes)
    IN  /\ hasRoom(writes)
        /\ notes' = updatedNotes
        /\ filteredNotes' = filterNotes(notes, activeCategory, searchQuery)
        /\ customCategories' = eff.customCategories
        /\ pending' = withWrites(pending, writes)
        /\ UNCHANGED <<activeCategory, searchQuery, isDarkMode, isInitialized,
                       storage, pc, loc>>

\* Faulty variant: the collection is saved as it was before the mutation
commitNotes_savesPrevious(updatedNotes, registerCategory, category) ==
    LET eff == IF registerCategory
               THEN addCustomCategoryEffect(customCategories, category)
               ELSE [customCategories |-> customCategories, writes |-> noWrites]
        writes == withWrites(saveNotes(notes), eff.writes)
    IN  /\ hasRoom(writes)
        /\ notes' = updatedNotes
        /\ filteredNotes' = filterNotes(updatedNotes, activeCategory, searchQuery)
        /\ customCategories' = eff.customCategories
        /\ pending' = withWrites(pending, writes)
        /\ UNCHANGED <<activeCategory, searchQuery, isDarkMode, isInitialized,
                       storage, pc, loc>>

\* Faulty variant: the state the updater was called with is written back, so
\* the registration made by the nested addCustomCategory call is lost
commitNotes_overwritesRegistry(updatedNotes, registerCategory, category) ==
    LET eff == IF registerCategory
               THEN addCustomCategoryEffect(customCategories, category)
               ELSE [customCategories |-> customCategories, writes |-> noWrites]
        writes == withWrites(saveNotes(updatedNotes), eff.writes)
    IN  /\ hasRoom(writes)
        /\ notes' = updatedNotes
        /\ filteredNotes' = filterNotes(updatedNotes, activeCategory, searchQuery)
        /\ customCategories' = customCategories
        /\ pending' = withWrites(pending, writes)
        /\ UNCHANGED <<activeCategory, searchQuery, isDarkMode, isInitialized,
                       storage, pc, loc>>

\* The shared tail of the note mutations: set({notes, filteredNotes}) after
\* saveNotes(updatedNotes) and, for addNote/updateNote, the nested
\* addCustomCategory call.
commitNotes(updatedNotes, registerCategory, category) ==
    LET eff == IF registerCategory
               THEN addCustomCategoryEffect(customCategories, category)
               ELSE [customCategories |-> customCategories, writes |-> noWrites]
        writes == withWrites(saveNotes(updatedNotes), eff.writes)
    IN  /\ hasRoom(writes)
        /\ notes' = updatedNotes
        /\ filteredNotes' = filterNotes(updatedNotes, activeCategory, searchQuery)
        /\ customCategories' = eff.customCategories
        /\ pending' = withWrites(pending, writes)
        /\ UNCHANGED <<activeCategory, searchQuery, isDarkMode, isInitialized,
                       storage, pc, loc>>

addNote(note, random, tick) ==
    LET newNote == [id |-> generateId(now, random),
                    title |-> note.title,
                    content |-> note.content,
                    category |-> note.category,
                    isPinned |-> note.isPinned,
                    isDeleted |-> note.isDeleted,
                    createdAt |-> now,
                    updatedAt |-> now + tick]
        updatedNotes == <<newNote>> \o notes
        novel == /\ ~isBuiltin(note.category)
                 /\ ~arrayIncludes(customCategories, note.category)
    IN  /\ Len(notes) < MaxNotes
        /\ now + tick <= MaxClock
        /\ now' = now + tick
        /\ commitNotes(updatedNotes, novel, note.category)

\* Faulty variant: the patch is spread last, so its updatedAt wins
mergeNote_patchLast(note, noteUpdates, time) ==
    [f \in DOMAIN note |->
        IF f \in DOMAIN noteUpdates THEN noteUpdates[f]
        ELSE IF f = "updatedAt" THEN time
        ELSE note[f]]

\* { ...note, ...noteUpdates, updatedAt: new Date().toISOString() }
mergeNote(note, noteUpdates, time) ==
    [f \in DOMAIN note |->
        IF f = "updatedAt" THEN time
        ELSE IF f \in DOMAIN noteUpdates THEN noteUpdates[f]
        ELSE note[f]]

\* Faulty variant: the category of the patch is registered before the note
\* is looked up
updateNote_registersFirst(id, noteUpdates) ==
    LET patched(note) == IF note.id = id THEN mergeNote(note, noteUpdates, now) ELSE note
        updatedNotes == [k \in DOMAIN notes |-> patched(notes[k])]
        hasCategory == "category" \in DOMAIN noteUpdates
        novel == /\ hasCategory
                 /\ truthy(noteUpdates.category)
                 /\ ~isBuiltin(noteUpdates.category)
                 /\ ~arrayIncludes(customCategories, noteUpdates.category)
        eff == IF novel
               THEN addCustomCategoryEffect(customCategories, noteUpdates.category)
               ELSE [customCategories |-> customCategories, writes |-> noWrites]
    IN  IF ~\E i \in 1..Len(notes) : notes[i].id = id
        THEN /\ hasRoom(eff.writes)
             /\ customCategories' = eff.customCategories
             /\ pending' = withWrites(pending, eff.writes)
             /\ UNCHANGED <<notes, filteredNotes, activeCategory, searchQuery,
                            isDarkMode, isInitialized, storage, now, pc, loc>>
        ELSE /\ commitNotes(updatedNotes, novel,
                            IF hasCategory THEN noteUpdates.category ELSE EMPTY)
             /\ UNCHANGED now

updateNote(id, noteUpdates) ==
    LET patched(note) == IF note.id = id THEN mergeNote(note, noteUpdates, now) ELSE note
        updatedNotes == [k \in DOMAIN notes |-> patched(notes[k])]
        hasCategory == "category" \in DOMAIN noteUpdates
        novel == /\ hasCategory
                 /\ truthy(noteUpdates.category)
                 /\ ~isBuiltin(noteUpdates.category)
                 /\ ~arrayIncludes(customCategories, noteUpdates.category)
    IN  IF ~\E i \in 1..Len(notes) : notes[i].id = id
        THEN UNCHANGED <<store, storage, pending, now, pc, loc>>
        ELSE /\ commitNotes(updatedNotes, novel,
                            IF hasCategory THEN noteUpdates.category ELSE EMPTY)
             /\ UNCHANGED now

\* Faulty variant: deleting removes the note from the collection
setDeleted_removes(arr, id, flag) ==
    LET other(note) == note.id # id
    IN  IF flag THEN SelectSeq(arr, other)
        ELSE [k \in DOMAIN arr |->
                 IF arr[k].id = id THEN [arr[k] EXCEPT !.isDeleted = flag] ELSE arr[k]]

\* state.notes.map(note => note.id === id ? { ...note, isDeleted: flag } : note)
setDeleted(arr, id, flag) ==
    [k \in DOMAIN arr |->
        IF arr[k].id = id THEN [arr[k] EXCEPT !.isDeleted = flag] ELSE arr[k]]

deleteNote(id) ==
    /\ commitNotes(setDeleted(notes, id, TRUE), FALSE, EMPTY)
    /\ UNCHANGED now

restoreNote(id) ==
    /\ commitNotes(setDeleted(notes, id, FALSE), FALSE, EMPTY)
    /\ UNCHANGED now

permanentlyDeleteNote(id) ==
    LET other(note) == note.id # id
    IN  /\ commitNotes(SelectSeq(notes, other), FALSE, EMPTY)
        /\ UNCHANGED now

\* Faulty variant: pinning counts as an edit and renews updatedAt
pinNote_renewsUpdatedAt(id) ==
    LET pinned(note) == IF note.id = id
                        THEN [note EXCEPT !.isPinned = TRUE, !.updatedAt = now + 1]
                        ELSE note
    IN  /\ commitNotes([k \in DOMAIN notes |-> pinned(notes[k])], FALSE, EMPTY)
        /\ UNCHANGED now

pinNote(id) ==
    LET pinned(note) == IF note.id = id THEN [note EXCEPT !.isPinned = TRUE] ELSE note
    IN  /\ commitNotes([k \in DOMAIN notes |-> pinned(notes[k])], FALSE, EMPTY)
        /\ UNCHANGED now

unpinNote(id) ==
    LET unpinned(note) == IF note.id = id THEN [note EXCEPT !.isPinned = FALSE] ELSE note
    IN  /\ commitNotes([k \in DOMAIN notes |-> unpinned(notes[k])], FALSE, EMPTY)
        /\ UNCHANGED now

setActiveCategory(category) ==
    /\ activeCategory' = category
    /\ filteredNotes' = filterNotes(notes, category, searchQuery)
    /\ UNCHANGED <<notes, searchQuery, isDarkMode, isInitialized, customCategories,
                   storage, pending, now, pc, loc>>

\* Faulty variant: the search also saves the collection
setSearchQuery_saves(query) ==
    /\ searchQuery' = query
    /\ filteredNotes' = filterNotes(notes, activeCategory, query)
    /\ pending' = withWrites(pending, saveNotes(notes))
    /\ UNCHANGED <<notes, activeCategory, isDarkMode, isInitialized, customCategories,
                   storage, now, pc, loc>>

setSearchQuery(query) ==
    /\ searchQuery' = query
    /\ filteredNotes' = filterNotes(notes, activeCategory, query)
    /\ UNCHANGED <<notes, activeCategory, isDarkMode, isInitialized, customCategories,
                   storage, pending, now, pc, loc>>

----------------------------------------------------------------------------
(* initialize, loadInitialState, emergencyClearStorage, resetAppData *)

\* The call sites that run initialize / resetAppData concurrently
Callers == {"layout", "index"}

MSG_LOAD_LIMIT == "Your notes data exceeded the storage limit. The app has been reset. Please avoid storing very large images directly in notes."
MSG_LOAD_GENERIC == "There was an error loading your notes. The app data has been reset."
MSG_INIT_LIMIT == "Your notes data exceeded the storage limit. The app has been reset. Please avoid storing large images directly in notes."
MSG_INIT_CRITICAL == "A critical error occurred. All app data has been reset to recover functionality."

\* Error signatures: 'Row too big' / 'CursorWindow' in the message, or not
Signatures == {"toobig", "other"}

errorResult(message) ==
    [notes |-> <<>>, isDarkMode |-> FALSE, customCategories |-> <<>>,
     storageError |-> TRUE, errorMessage |-> message]

hasStorageError(result) == "storageError" \in DOMAIN result /\ result.storageError

\* What an async call has returned, what loadInitialState has returned
NoResult == [kind |-> "none"]
Undefined == [kind |-> "undefined"]
Boolean(b) == [kind |-> "boolean", value |-> b]
Result(r) == [kind |-> "result", value |-> r]

idleLocals ==
    [savedNotesString |-> NULL, savedThemeString |-> NULL,
     savedCategoriesString |-> NULL,
     failure |-> "none",      \* what loadInitialState caught
     result |-> NoResult,     \* what loadInitialState returned
     branch |-> "none",       \* who awaits emergencyClearStorage
     ret |-> NoResult]        \* what initialize / resetAppData returned

\* The data loadInitialState holds when its inner try block ends: the records
\* are parsed in the order notes, theme, categories and the first failure
\* skips the rest.
parsedData(notesText, themeText, categoriesText) ==
    LET notesOk == ~stringTruthy(notesText) \/ parses(notesText)
        themeOk == ~stringTruthy(themeText) \/ parses(themeText)
        categoriesOk == ~stringTruthy(categoriesText) \/ parses(categoriesText)
    IN  [threw |-> ~(notesOk /\ themeOk /\ categoriesOk),
         data |->
            [notes |-> IF stringTruthy(notesText) /\ notesOk
                       THEN JSONparse(notesText) ELSE <<>>,
             isDarkMode |-> IF notesOk /\ stringTruthy(themeText) /\ themeOk
                            THEN JSONparse(themeText) ELSE FALSE,
             customCategories |->
                       IF notesOk /\ themeOk /\ stringTruthy(categoriesText) /\ categoriesOk
                       THEN JSONparse(categoriesText) ELSE <<>>]]

\* Faulty variant: the recovery path forgets to mark the store initialized
setEmptyState_notInitialized ==
    /\ notes' = <<>>
    /\ filteredNotes' = <<>>
    /\ customCategories' = <<>>
    /\ isDarkMode' = FALSE
    /\ UNCHANGED <<isInitialized, activeCategory, searchQuery>>

\* set({ notes: [], filteredNotes: [], customCategories: [], isDarkMode: false,
\*       isInitialized: true })
setEmptyState ==
    /\ notes' = <<>>
    /\ filteredNotes' = <<>>
    /\ customCategories' = <<>>
    /\ isDarkMode' = FALSE
    /\ isInitialized' = TRUE
    /\ UNCHANGED <<activeCategory, searchQuery>>

\* Faulty variant: the view is not computed from the loaded notes
afterLoad_keepsView(i, failure, result, notesIsNull) ==
    IF notesIsNull
    THEN /\ pc' = [pc EXCEPT ![i] = "rmNotes"]
         /\ loc' = [loc EXCEPT ![i] = [idleLocals EXCEPT !.failure = failure,
                                           !.result = Result(result), !.branch = "loadError"]]
         /\ UNCHANGED store
    ELSE IF hasStorageError(result)
    THEN /\ pc' = [pc EXCEPT ![i] = "rmNotes"]
         /\ loc' = [loc EXCEPT ![i] = [idleLocals EXCEPT !.failure = failure,
                                           !.result = Result(result), !.branch = "storageError"]]
         /\ UNCHANGED store
    ELSE /\ notes' = result.notes
         /\ isDarkMode' = result.isDarkMode
         /\ customCategories' = result.customCategories
         /\ isInitialized' = TRUE
         /\ UNCHANGED <<filteredNotes, activeCategory, searchQuery>>
         /\ pc' = [pc EXCEPT ![i] = "returned"]
         /\ loc' = [loc EXCEPT ![i] = [idleLocals EXCEPT !.failure = failure,
                                           !.result = Result(result), !.ret = Result(result)]]

\* initialize() continues after `await loadInitialState()` returned result
\* (a result with storageError starts emergencyClearStorage)
afterLoad(i, failure, result, notesIsNull) ==
    IF notesIsNull
    THEN \* result.notes.length throws: caught as loadError
         /\ pc' = [pc EXCEPT ![i] = "rmNotes"]
         /\ loc' = [loc EXCEPT ![i] = [idleLocals EXCEPT !.failure = failure,
                                           !.result = Result(result), !.branch = "loadError"]]
         /\ UNCHANGED store
    ELSE IF hasStorageError(result)
    THEN /\ pc' = [pc EXCEPT ![i] = "rmNotes"]
         /\ loc' = [loc EXCEPT ![i] = [idleLocals EXCEPT !.failure = failure,
                                           !.result = Result(result), !.branch = "storageError"]]
         /\ UNCHANGED store
    ELSE /\ notes' = result.notes
         /\ isDarkMode' = result.isDarkMode
         /\ customCategories' = result.customCategories
         /\ isInitialized' = TRUE
         /\ filteredNotes' = filterNotes(result.notes, activeCategory, searchQuery)
         /\ UNCHANGED <<activeCategory, searchQuery>>
         /\ pc' = [pc EXCEPT ![i] = "returned"]
         /\ loc' = [loc EXCEPT ![i] = [idleLocals EXCEPT !.failure = failure,
                                           !.result = Result(result), !.ret = Result(result)]]

\* Faulty variant: the isInitialized guard is missing
initialize_noGuard(i) ==
    /\ pc[i] \in {"idle", "returned"}
    /\ pc' = [pc EXCEPT ![i] = "getNotes"]
    /\ loc' = [loc EXCEPT ![i] = idleLocals]
    /\ UNCHANGED <<store, storage, pending, now>>

initialize(i) ==
    /\ pc[i] \in {"idle", "returned"}
    /\ IF isInitialized
       THEN /\ pc' = [pc EXCEPT ![i] = "returned"]
            /\ loc' = [loc EXCEPT ![i] = [idleLocals EXCEPT !.ret = Undefined]]
       ELSE /\ pc' = [pc EXCEPT ![i] = "getNotes"]
            /\ loc' = [loc EXCEPT ![i] = idleLocals]
    /\ UNCHANGED <<store, storage, pending, now>>

\* One of the three `await AsyncStorage.getItem(...)` of loadInitialState
\* completes: with the record, or by throwing (caught by the outer catch).
getItemCompletes(i, at, key, field, next) ==
    /\ pc[i] = at
    /\ \/ /\ pc' = [pc EXCEPT ![i] = next]
          /\ loc' = [loc EXCEPT ![i][field] = storage[key]]
          /\ UNCHANGED store
       \/ \E signature \in Signatures :
             afterLoad(i, IF signature = "toobig" THEN "read_toobig" ELSE "read_other",
                       errorResult(MSG_LOAD_GENERIC), FALSE)
    /\ UNCHANGED <<storage, pending, now>>

loadNotesString(i) ==
    getItemCompletes(i, "getNotes", STORAGE_KEY, "savedNotesString", "getTheme")
loadThemeString(i) ==
    getItemCompletes(i, "getTheme", THEME_KEY, "savedThemeString", "getCategories")
loadCategoriesString(i) ==
    getItemCompletes(i, "getCategories", CUSTOM_CATEGORIES_KEY,
                     "savedCategoriesString", "parse")

\* The inner try/catch of loadInitialState and its return
loadParse(i) ==
    LET parsed == parsedData(loc[i].savedNotesString, loc[i].savedThemeString,
                             loc[i].savedCategoriesString)
        notesIsNull == loc[i].savedNotesString = JSONNULL
    IN  /\ pc[i] = "parse"
        /\ IF parsed.threw
           THEN \E signature \in Signatures :
                   IF signature = "toobig"
                   THEN \* await clearStorage()
                        /\ pc' = [pc EXCEPT ![i] = "loadClear"]
                        /\ loc' = [loc EXCEPT ![i] =
                                     [idleLocals EXCEPT !.failure = "parse_toobig"]]
                        /\ UNCHANGED store
                   ELSE afterLoad(i, "parse_other", parsed.data, notesIsNull)
           ELSE afterLoad(i, "none", parsed.data, notesIsNull)
        /\ UNCHANGED <<storage, pending, now>>

\* clearStorage() called by loadInitialState: AsyncStorage.clear() completes
\* or throws (clearStorage then returns false), and loadInitialState returns
loadClear(i) ==
    /\ pc[i] = "loadClear"
    /\ \E ok \in BOOLEAN : storage' = IF ok THEN emptyStorage ELSE storage
    /\ afterLoad(i, loc[i].failure, errorResult(MSG_LOAD_LIMIT), FALSE)
    /\ UNCHANGED <<pending, now>>

resetAppData(i) ==
    /\ pc[i] \in {"idle", "returned"}
    /\ pc' = [pc EXCEPT ![i] = "rmNotes"]
    /\ loc' = [loc EXCEPT ![i] = [idleLocals EXCEPT !.branch = "reset"]]
    /\ UNCHANGED <<store, storage, pending, now>>

\* Faulty variant: the reset takes the store back to Uninitialized
setDefaultState_uninitialized ==
    /\ notes' = <<>>
    /\ filteredNotes' = <<>>
    /\ activeCategory' = ALL
    /\ searchQuery' = EMPTY
    /\ isDarkMode' = FALSE
    /\ customCategories' = <<>>
    /\ isInitialized' = FALSE

\* set({ notes: [], filteredNotes: [], activeCategory: 'all', searchQuery: '',
\*       isDarkMode: false, customCategories: [], isInitialized: true })
setDefaultState ==
    /\ notes' = <<>>
    /\ filteredNotes' = <<>>
    /\ activeCategory' = ALL
    /\ searchQuery' = EMPTY
    /\ isDarkMode' = FALSE
    /\ customCategories' = <<>>
    /\ isInitialized' = TRUE

returnsWith(i, value) ==
    loc' = [loc EXCEPT ![i] = [idleLocals EXCEPT !.failure = loc[i].failure,
                                                 !.ret = value]]

\* Faulty variant: initialize resets the state only when the clear succeeded, as
\* resetAppData does
afterEmergencyClear_onlyOnSuccess(i, success) ==
    /\ pc' = [pc EXCEPT ![i] = "returned"]
    /\ CASE loc[i].branch = "storageError" ->
              /\ IF success THEN setEmptyState ELSE UNCHANGED store
              /\ returnsWith(i, Result(errorResult(MSG_INIT_LIMIT)))
         [] loc[i].branch = "loadError" ->
              /\ IF success THEN setEmptyState ELSE UNCHANGED store
              /\ returnsWith(i, Result(errorResult(MSG_INIT_CRITICAL)))
         [] OTHER ->
              /\ returnsWith(i, Boolean(success))
              /\ IF success THEN setDefaultState ELSE UNCHANGED store

\* Faulty variant: resetAppData resets the state whatever the clear returned
afterEmergencyClear_resetsOnFailure(i, success) ==
    /\ pc' = [pc EXCEPT ![i] = "returned"]
    /\ CASE loc[i].branch = "storageError" ->
              /\ setEmptyState
              /\ returnsWith(i, Result(errorResult(MSG_INIT_LIMIT)))
         [] loc[i].branch = "loadError" ->
              /\ setEmptyState
              /\ returnsWith(i, Result(errorResult(MSG_INIT_CRITICAL)))
         [] OTHER ->
              /\ returnsWith(i, Boolean(success))
              /\ setDefaultState

\* The caller of emergencyClearStorage continues with its result
afterEmergencyClear(i, success) ==
    /\ pc' = [pc EXCEPT ![i] = "returned"]
    /\ CASE loc[i].branch = "storageError" ->
              /\ setEmptyState
              /\ returnsWith(i, Result(errorResult(MSG_INIT_LIMIT)))
         [] loc[i].branch = "loadError" ->
              /\ setEmptyState
              /\ returnsWith(i, Result(errorResult(MSG_INIT_CRITICAL)))
         [] OTHER ->
              /\ returnsWith(i, Boolean(success))
              /\ IF success THEN setDefaultState ELSE UNCHANGED store

\* A removeItem of the first block of emergencyClearStorage completes or throws
removeItemCompletes(i, at, key, next) ==
    /\ pc[i] = at
    /\ \/ /\ storage' = [storage EXCEPT ![key] = NULL]
          /\ pc' = [pc EXCEPT ![i] = next]
       \/ /\ storage' = storage
          /\ pc' = [pc EXCEPT ![i] = "lastResort"]
    /\ loc' = [loc EXCEPT ![i] = [idleLocals EXCEPT !.branch = loc[i].branch,
                                                    !.failure = loc[i].failure]]
    /\ UNCHANGED <<store, pending, now>>

emergencyRemoveNotes(i) == removeItemCompletes(i, "rmNotes", STORAGE_KEY, "rmTheme")
emergencyRemoveTheme(i) == removeItemCompletes(i, "rmTheme", THEME_KEY, "rmCategories")
emergencyRemoveCategories(i) ==
    removeItemCompletes(i, "rmCategories", CUSTOM_CATEGORIES_KEY, "clear")

emergencyClear(i) ==
    /\ pc[i] = "clear"
    /\ \/ /\ storage' = emptyStorage
          /\ pc' = [pc EXCEPT ![i] = "verify"]
       \/ /\ storage' = storage
          /\ pc' = [pc EXCEPT ![i] = "lastResort"]
    /\ UNCHANGED <<store, pending, now, loc>>

\* The verifying getItem: its value is only logged
emergencyVerify(i) ==
    /\ pc[i] = "verify"
    /\ \/ afterEmergencyClear(i, TRUE)
       \/ /\ pc' = [pc EXCEPT ![i] = "lastResort"]
          /\ UNCHANGED <<store, loc>>
    /\ UNCHANGED <<storage, pending, now>>

emergencyLastResort(i) ==
    /\ pc[i] = "lastResort"
    /\ \/ /\ storage' = [storage EXCEPT ![STORAGE_KEY] = NULL]
          /\ afterEmergencyClear(i, TRUE)
       \/ /\ storage' = storage
          /\ afterEmergencyClear(i, FALSE)
    /\ UNCHANGED <<pending, now>>

----------------------------------------------------------------------------
(* History: the ids that have been in the collection, the ids that
   permanentlyDeleteNote removed, and what the last save of each record
   returned ("saves") or what all its saves so far returned ("outcomes").
   A specification records the aspects named in history.track. *)

idsOf(arr) == {arr[k].id : k \in DOMAIN arr}

historyOf(track, arr) ==
    [track |-> track, seen |-> idsOf(arr), purged |-> {},
     returned |-> [k \in Keys |-> {}]]

noHistory == historyOf({}, <<>>)

\* The step put notes' in place and permanently removed the notes `removed`
Remember(removed) ==
    history' = IF "ids" \in history.track
               THEN [history EXCEPT !.seen = @ \cup idsOf(notes'),
                                    !.purged = @ \cup removed]
               ELSE history

\* The save of the record `key` returned `ok`
RememberReturn(key, ok) ==
    history' = IF "saves" \in history.track
               THEN [history EXCEPT !.returned[key] = {ok}]
               ELSE IF "outcomes" \in history.track
               THEN [history EXCEPT !.returned[key] = @ \cup {ok}]
               ELSE history

----------------------------------------------------------------------------
(* Inputs *)

TRAVEL == <<"t">>
Ticks == {0, 1}
BLANK == <<" ">>

\* A collection the application wrote in an earlier session
storedNotes ==
    << [id |-> generateId(0, 1), title |-> <<"B", "a">>, content |-> <<>>,
        category |-> WORK, isPinned |-> FALSE, isDeleted |-> FALSE,
        createdAt |-> 1, updatedAt |-> 1],
       [id |-> generateId(0, 0), title |-> <<"A">>, content |-> <<"a">>,
        category |-> TRAVEL, isPinned |-> TRUE, isDeleted |-> TRUE,
        createdAt |-> 0, updatedAt |-> 0] >>

storageOf(notesText, themeText, categoriesText) ==
    [k \in Keys |-> CASE k = STORAGE_KEY -> notesText
                      [] k = THEME_KEY -> themeText
                      [] OTHER -> categoriesText]

InitWith(storages) ==
    /\ notes = <<>>
    /\ filteredNotes = <<>>
    /\ activeCategory = ALL
    /\ searchQuery = EMPTY
    /\ isDarkMode = FALSE
    /\ isInitialized = FALSE
    /\ customCategories = <<>>
    /\ storage \in storages
    /\ pending = noWrites
    /\ now = 1     \* the earlier session ran at 0 and 1
    /\ pc = [i \in Callers |-> "idle"]
    /\ loc = [i \in Callers |-> idleLocals]

\* The application is started again: the module is loaded anew and the store
\* is created with its initial state.  AsyncStorage keeps its records, and a
\* write the previous process handed over may still be carried out.
Relaunch ==
    /\ notes' = <<>>
    /\ filteredNotes' = <<>>
    /\ activeCategory' = ALL
    /\ searchQuery' = EMPTY
    /\ isDarkMode' = FALSE
    /\ isInitialized' = FALSE
    /\ customCategories' = <<>>
    /\ pc' = [i \in Callers |-> "idle"]
    /\ loc' = [i \in Callers |-> idleLocals]
    /\ UNCHANGED <<storage, pending, now>>

AsyncStep(i) ==
    \/ initialize(i) /\ Remember({})
    \/ resetAppData(i) /\ Remember({})
    \/ loadNotesString(i) /\ Remember({})
    \/ loadThemeString(i) /\ Remember({})
    \/ loadCategoriesString(i) /\ Remember({})
    \/ loadParse(i) /\ Remember({})
    \/ loadClear(i) /\ Remember({})
    \/ emergencyRemoveNotes(i) /\ Remember({})
    \/ emergencyRemoveTheme(i) /\ Remember({})
    \/ emergencyRemoveCategories(i) /\ Remember({})
    \/ emergencyClear(i) /\ Remember({})
    \/ emergencyVerify(i) /\ Remember({})
    \/ emergencyLastResort(i) /\ Remember({})

NoteCommand(drafts, randoms, ticks, patches, ids) ==
    \/ \E note \in drafts, random \in randoms, tick \in ticks :
          addNote(note, random, tick) /\ Remember({})
    \/ \E id \in ids, noteUpdates \in patches :
          updateNote(id, noteUpdates) /\ Remember({})
    \/ \E id \in ids : deleteNote(id) /\ Remember({})
    \/ \E id \in ids : restoreNote(id) /\ Remember({})
    \/ \E id \in ids : permanentlyDeleteNote(id) /\ Remember({id} \cap idsOf(notes))
    \/ \E id \in ids : pinNote(id) /\ Remember({})
    \/ \E id \in ids : unpinNote(id) /\ Remember({})

ViewCommand(categories, queries) ==
    \/ \E category \in categories : setActiveCategory(category) /\ Remember({})
    \/ \E query \in queries : setSearchQuery(query) /\ Remember({})

SettingsCommand(names) ==
    \/ toggleTheme /\ Remember({})
    \/ \E category \in names : addCustomCategory(category) /\ Remember({})
    \/ \E category \in names : removeCustomCategory(category) /\ Remember({})

WriteCompletes(outcomes) ==
    \E key \in Keys : \E value \in pending[key] : \E ok \in outcomes :
        setItemCompletes(key, value, ok) /\ RememberReturn(key, ok)

----------------------------------------------------------------------------
(* Spec: every operation of the store, with one caller of the async
   operations.  The storage rejects every write here (a rejected write is
   only logged), so the records stay as the earlier session left them; the
   specifications further down let writes succeed. *)

Drafts ==
    { [title |-> <<"A">>, content |-> <<>>, category |-> WORK,
       isPinned |-> FALSE, isDeleted |-> FALSE] }

Patches == { [title |-> <<"a", " ">>, content |-> <<>>, category |-> TRAVEL] }

InitialStorages ==
    { emptyStorage,
      storageOf(JSONstringify(jsonArray(storedNotes)),
                JSONstringify(jsonBoolean(TRUE)),
                JSONstringify(jsonArray(<<TRAVEL>>))),
      storageOf(GARBAGE, NULL, NULL) }

Init == InitWith(InitialStorages) /\ history = noHistory

Next ==
    \/ AsyncStep("layout")
    \/ NoteCommand(Drafts, {0}, Ticks, Patches, {generateId(0, 0), generateId(0, 1)})
    \/ ViewCommand({ALL, WORK}, {EMPTY, <<"a">>})
    \/ SettingsCommand({TRAVEL})
    \/ WriteCompletes({FALSE})

Spec == Init /\ [][Next]_vars

----------------------------------------------------------------------------
(* SpecFilter: filterNotes over every collection of up to MaxLen notes, in a
   Ready store that loaded the collection, under every selector.  The
   collection is in any order: updateNote accepts a patch with createdAt. *)

WORK_CAPITAL == <<"W", "o", "r", "k">>

NoteShapes ==
    { [title |-> text[1], content |-> text[2], category |-> category,
       isPinned |-> isPinned, isDeleted |-> isDeleted, createdAt |-> createdAt] :
        text \in { << <<"A">>, <<>> >>, << <<"b">>, <<" ", "a">> >> },
        category \in {WORK, WORK_CAPITAL},
        isPinned \in BOOLEAN, isDeleted \in BOOLEAN, createdAt \in 0..1 }

Collections == UNION { [1..n -> NoteShapes] : n \in 0..MaxLen }

asNotes(shapes) ==
    [i \in 1..Len(shapes) |->
        [id |-> generateId(shapes[i].createdAt, i),
         title |-> shapes[i].title,
         content |-> shapes[i].content,
         category |-> shapes[i].category,
         isPinned |-> shapes[i].isPinned,
         isDeleted |-> shapes[i].isDeleted,
         createdAt |-> shapes[i].createdAt,
         updatedAt |-> shapes[i].createdAt]]

InitFilter ==
    /\ \E shapes \in Collections : notes = asNotes(shapes)
    /\ filteredNotes = filterNotes(notes, ALL, EMPTY)
    /\ activeCategory = ALL
    /\ searchQuery = EMPTY
    /\ isDarkMode = FALSE
    /\ isInitialized = TRUE
    /\ customCategories = <<>>
    /\ storage = storageOf(JSONstringify(jsonArray(notes)), NULL, NULL)
    /\ pending = noWrites
    /\ now = 1
    /\ pc = [i \in Callers |-> "idle"]
    /\ loc = [i \in Callers |-> idleLocals]
    /\ history = noHistory

NextFilter ==
    ViewCommand({ALL, WORK, WORK_CAPITAL}, {EMPTY, BLANK, <<"A">>, <<" ", "a">>})

SpecFilter == InitFilter /\ [][NextFilter]_vars

----------------------------------------------------------------------------
(* SpecInit: the async operations of two callers against every kind of
   stored record, with writes that succeed or fail *)

InitStorages ==
    { storageOf(n, t, c) :
        n \in {NULL, GARBAGE, JSONNULL, JSONstringify(jsonArray(storedNotes))},
        t \in {NULL, GARBAGE, JSONstringify(jsonBoolean(TRUE))},
        c \in {NULL, GARBAGE, JSONstringify(jsonArray(<<TRAVEL>>))} }

InitInit == InitWith(InitStorages) /\ history = noHistory

NextInit ==
    \/ \E i \in Callers : AsyncStep(i)
    \/ \E note \in Drafts : addNote(note, 0, 0) /\ Remember({})
    \/ WriteCompletes(BOOLEAN)

SpecInit == InitInit /\ [][NextInit]_vars

\* Every await settles: a pending AsyncStorage call of a running async
\* operation eventually completes or throws.
AsyncCompletion(i) ==
    /\ \/ loadNotesString(i)
       \/ loadThemeString(i)
       \/ loadCategoriesString(i)
       \/ loadParse(i)
       \/ loadClear(i)
       \/ emergencyRemoveNotes(i)
       \/ emergencyRemoveTheme(i)
       \/ emergencyRemoveCategories(i)
       \/ emergencyClear(i)
       \/ emergencyVerify(i)
       \/ emergencyLastResort(i)
    /\ Remember({})

SpecInitFair == SpecInit /\ \A i \in Callers : WF_vars(AsyncCompletion(i))

----------------------------------------------------------------------------
(* SpecSave: a fresh installation, or one whose categories record is
   damaged; notes, theme and categories are changed and saved, the writes
   succeed or fail, the application is started again and loads what the
   storage holds *)

InitSave ==
    /\ InitWith({emptyStorage, storageOf(NULL, NULL, GARBAGE)})
    /\ history = historyOf({"saves"}, <<>>)

SaveIds == {generateId(t, 0) : t \in 0..MaxClock}

NextSave ==
    \/ AsyncStep("layout")
    \/ \E note \in Drafts : addNote(note, 0, 0) /\ Remember({})
    \/ \E id \in SaveIds : permanentlyDeleteNote(id) /\ Remember({})
    \/ SettingsCommand({TRAVEL})
    \/ WriteCompletes(BOOLEAN)
    \/ Relaunch /\ Remember({})

SpecSave == InitSave /\ [][NextSave]_vars

----------------------------------------------------------------------------
(* SpecNotes: the note commands on a Ready store, with every draft and patch
   the types admit: a draft with the category 'all', patches that carry id,
   createdAt or updatedAt.  No load runs here, so the storage is only
   written; its writes fail as in Spec.  One write is in flight at a time,
   so a command that would register a category beside its note waits;
   SpecBurst has room for it. *)

WideDrafts ==
    Drafts \cup { [title |-> <<"A">>, content |-> <<>>, category |-> ALL,
                   isPinned |-> FALSE, isDeleted |-> FALSE] }

WidePatches ==
    Patches \cup { [id |-> generateId(0, 0)],
                    [createdAt |-> MaxClock, updatedAt |-> 0],
                    [category |-> ALL] }

Randoms == {0, 1}

NoteIds == { generateId(t, r) : t \in 0..1, r \in Randoms }

InitNotes ==
    /\ notes \in {<<>>, storedNotes}
    /\ filteredNotes = filterNotes(notes, ALL, EMPTY)
    /\ activeCategory = ALL
    /\ searchQuery = EMPTY
    /\ isDarkMode = FALSE
    /\ isInitialized = TRUE
    /\ customCategories = <<>>
    /\ storage = storageOf(JSONstringify(jsonArray(notes)), NULL, NULL)
    /\ pending = noWrites
    /\ now = 1
    /\ pc = [i \in Callers |-> "idle"]
    /\ loc = [i \in Callers |-> idleLocals]
    /\ history = historyOf({"ids"}, notes)

NextNotes ==
    \/ NoteCommand(WideDrafts, Randoms, Ticks, WidePatches, NoteIds)
    \/ ViewCommand({ALL, WORK}, {EMPTY, <<"a">>})
    \/ WriteCompletes({FALSE})

SpecNotes == InitNotes /\ [][NextNotes]_vars

----------------------------------------------------------------------------
(* SpecPurge: two callers start initialize() on a storage that holds the
   stored collection, with the categories record absent or damaged, while
   notes are permanently deleted and restored *)

InitPurge ==
    /\ InitWith({ storageOf(JSONstringify(jsonArray(storedNotes)), NULL, c) :
                    c \in {NULL, GARBAGE} })
    /\ history = historyOf({"ids"}, <<>>)

NextPurge ==
    \/ \E i \in Callers : AsyncStep(i)
    \/ \E id \in idsOf(storedNotes) :
          permanentlyDeleteNote(id) /\ Remember({id} \cap idsOf(notes))
    \/ \E id \in idsOf(storedNotes) : restoreNote(id) /\ Remember({})
    \/ WriteCompletes(BOOLEAN)

SpecPurge == InitPurge /\ [][NextPurge]_vars

----------------------------------------------------------------------------
(* SpecBurst: commands that follow each other faster than their writes
   complete, on a Ready store that loaded an empty collection and a registry
   that is empty or holds one name: notes are created and changed with
   categories that are not registered (one of them blank, one empty),
   categories are added and removed, and the writes complete in any order,
   successfully or not *)

BurstDrafts ==
    { [title |-> <<"A">>, content |-> <<>>, category |-> category,
       isPinned |-> FALSE, isDeleted |-> FALSE] : category \in {TRAVEL, BLANK, EMPTY} }

BurstPatches == { [title |-> <<"b">>, category |-> TRAVEL],
                  [category |-> BLANK], [category |-> EMPTY] }

BurstIds == { generateId(1, 0) }

InitBurst ==
    /\ notes = <<>>
    /\ filteredNotes = <<>>
    /\ activeCategory = ALL
    /\ searchQuery = EMPTY
    /\ isDarkMode = FALSE
    /\ isInitialized = TRUE
    /\ \/ /\ customCategories = <<>>
          /\ storage = emptyStorage
       \/ /\ customCategories = <<TRAVEL>>
          /\ storage = storageOf(NULL, NULL, JSONstringify(jsonArray(<<TRAVEL>>)))
    /\ pending = noWrites
    /\ now = 1
    /\ pc = [i \in Callers |-> "idle"]
    /\ loc = [i \in Callers |-> idleLocals]
    /\ history = historyOf({"burst", "outcomes"}, <<>>)

NextBurst ==
    \/ \E note \in BurstDrafts : addNote(note, 0, 0) /\ Remember({})
    \/ \E id \in BurstIds, noteUpdates \in BurstPatches :
          updateNote(id, noteUpdates) /\ Remember({})
    \/ \E category \in {TRAVEL, BLANK} : addCustomCategory(category) /\ Remember({})
    \/ \E category \in {TRAVEL} : removeCustomCategory(category) /\ Remember({})
    \/ WriteCompletes(BOOLEAN)

SpecBurst == InitBurst /\ [][NextBurst]_vars

----------------------------------------------------------------------------
(* SpecRegistry: the registry starts empty in a Ready store with an empty
   collection; names are offered to addCustomCategory, among them built-in
   names, the selector 'all' and a blank, and notes are created and changed
   with built-in, new and blank categories.  Writes are accepted while
   earlier ones are in flight, as in SpecBurst. *)

RegistryNames == {TRAVEL, WORK, ALL, BLANK, EMPTY}

RegistryDrafts ==
    { [title |-> <<"A">>, content |-> <<>>, category |-> category,
       isPinned |-> FALSE, isDeleted |-> FALSE] : category \in {TRAVEL, WORK, BLANK} }

RegistryPatches == { [category |-> category] : category \in {TRAVEL, ALL, FAMILY} }

InitRegistry ==
    /\ notes = <<>>
    /\ filteredNotes = <<>>
    /\ activeCategory = ALL
    /\ searchQuery = EMPTY
    /\ isDarkMode = FALSE
    /\ isInitialized = TRUE
    /\ customCategories = <<>>
    /\ storage = emptyStorage
    /\ pending = noWrites
    /\ now = 1
    /\ pc = [i \in Callers |-> "idle"]
    /\ loc = [i \in Callers |-> idleLocals]
    /\ history = historyOf({"burst"}, <<>>)

NextRegistry ==
    \/ \E category \in RegistryNames : addCustomCategory(category) /\ Remember({})
    \/ \E note \in RegistryDrafts : addNote(note, 0, 0) /\ Remember({})
    \/ \E id \in BurstIds, noteUpdates \in RegistryPatches :
          updateNote(id, noteUpdates) /\ Remember({})
    \/ WriteCompletes({TRUE})

SpecRegistry == InitRegistry /\ [][NextRegistry]_vars

----------------------------------------------------------------------------
(* Properties of the derived view *)

Range(seq) == {seq[i] : i \in DOMAIN seq}

\* C1: in every state between operations, filteredNotes is the filter/sort
\* algorithm applied to the current notes, activeCategory and searchQuery.
C1_ViewIsCurrent ==
    filteredNotes = filterNotes(notes, activeCategory, searchQuery)

\* C1 witness: a loaded collection, changed by a mutation, is shown through
\* a category selector and a search query that each exclude something.
C1_Witness ==
    /\ isInitialized
    /\ activeCategory = WORK
    /\ truthy(trim(searchQuery))
    /\ filteredNotes # <<>>
    /\ Len(filteredNotes) < Len(notes)
    /\ \E i \in DOMAIN notes : notes[i].isDeleted
    /\ \E i \in DOMAIN notes : notes[i].updatedAt > notes[i].createdAt

\* C2: filteredNotes never contains a note whose isDeleted is true.
C2_NoTrashInView ==
    \A i \in DOMAIN filteredNotes : ~filteredNotes[i].isDeleted

\* C2 witness: the collection holds a note in the trash while the view shows
\* another note.
C2_Witness ==
    /\ \E i \in DOMAIN notes : notes[i].isDeleted
    /\ filteredNotes # <<>>

\* C3: with a category other than 'all' selected every note of the view has
\* exactly that category; with 'all' selected every note that is not in the
\* trash and passes the search is in the view.
C3_CategoryFilter ==
    /\ activeCategory # ALL =>
          \A i \in DOMAIN filteredNotes : filteredNotes[i].category = activeCategory
    /\ activeCategory = ALL =>
          \A i \in DOMAIN notes :
              ( /\ ~notes[i].isDeleted
                /\ truthy(trim(searchQuery)) =>
                      matchesQuery(notes[i], toLowerCase(searchQuery)) )
              => notes[i] \in Range(filteredNotes)

\* C3 witness: 'work' is selected, the view is not empty, and the collection
\* holds a live note whose category differs from it only in case.
C3_Witness ==
    /\ activeCategory = WORK
    /\ filteredNotes # <<>>
    /\ \E i \in DOMAIN notes :
          ~notes[i].isDeleted /\ notes[i].category = WORK_CAPITAL

containsQuery(note, query) ==
    \/ includes(toLowerCase(note.title), toLowerCase(query))
    \/ includes(toLowerCase(note.content), toLowerCase(query))

\* C4 as stated: for every non-empty searchQuery, whitespace-only queries
\* included, every note of the view contains the query, compared without
\* regard to case, in its title or its content.
C4_AsStated ==
    truthy(searchQuery) =>
        \A i \in DOMAIN filteredNotes : containsQuery(filteredNotes[i], searchQuery)

\* C4 amended: for every searchQuery that is not empty after trimming, every
\* note of the view contains the query as given (untrimmed), compared
\* without regard to case, in its title or its content.
C4_SearchFilter ==
    truthy(trim(searchQuery)) =>
        \A i \in DOMAIN filteredNotes : containsQuery(filteredNotes[i], searchQuery)

\* C4 witness: a query with leading whitespace keeps one note and drops
\* another live note.
C4_Witness ==
    /\ searchQuery = <<" ", "a">>
    /\ activeCategory = ALL
    /\ filteredNotes # <<>>
    /\ \E i \in DOMAIN notes :
          ~notes[i].isDeleted /\ notes[i] \notin Range(filteredNotes)

\* C5: in the view a pinned note precedes every unpinned note, and of two
\* notes with the same pinned status the one created later precedes.
C5_SortOrder ==
    \A i, j \in DOMAIN filteredNotes :
        LET A == filteredNotes[i]
            B == filteredNotes[j]
        IN  ( \/ A.isPinned /\ ~B.isPinned
              \/ A.isPinned = B.isPinned /\ A.createdAt > B.createdAt )
            => i < j

\* C5 witness: with 'work' selected the view shows two notes in the reverse
\* of their order in the collection, the newer behind the older because the
\* older is pinned.
C5_Witness ==
    /\ Len(notes) = 2
    /\ Len(filteredNotes) = 2
    /\ filteredNotes[1] = notes[2]
    /\ filteredNotes[1].isPinned /\ ~filteredNotes[2].isPinned
    /\ filteredNotes[1].createdAt < filteredNotes[2].createdAt
    /\ activeCategory = WORK

----------------------------------------------------------------------------
(* Properties of initialize and loadInitialState *)

TooBig == {"read_toobig", "parse_toobig"}

callerSteps(i) == <<pc[i], loc[i]>> # <<pc'[i], loc'[i]>>

\* C6: initialize() called on a Ready store returns undefined at once: no
\* field of the store changes, no getItem is issued, storage is not touched.
C6_InitializeWhenReady ==
    [][\A i \in Callers :
          ( /\ isInitialized
            /\ pc[i] \in {"idle", "returned"}
            /\ callerSteps(i)
            /\ pc'[i] # "rmNotes" )          \* the step is initialize(i)
          => /\ pc'[i] = "returned"
             /\ loc'[i].ret = Undefined
             /\ UNCHANGED <<store, storage, pending>>]_vars

\* C6 witness: a second initialize() has returned undefined on a store that
\* holds the loaded collection.
C6_Witness ==
    \E i \in Callers :
        /\ pc[i] = "returned"
        /\ loc[i].ret = Undefined
        /\ isInitialized
        /\ notes = storedNotes

\* C7: every initialize() that starts on an uninitialized store returns, and
\* a store from which initialize() has returned is initialized.
C7_InitializeReturnsReady ==
    /\ [](\A i \in Callers :
            (pc[i] = "returned" /\ loc[i].ret.kind \in {"undefined", "result"})
            => isInitialized)
    /\ \A i \in Callers : (pc[i] = "getNotes") ~> (pc[i] = "returned")

\* C7 witness: initialize() has returned through the critical-error path
\* (a stored "null") after the last-resort key removal failed too.
C7_Witness ==
    \E i \in Callers :
        /\ pc[i] = "returned"
        /\ loc[i].ret = Result(errorResult(MSG_INIT_CRITICAL))
        /\ isInitialized
        /\ storage[STORAGE_KEY] = JSONNULL

\* C8: when the load failed with the too-large signature, initialize()
\* returns with isInitialized = true, notes = [], filteredNotes = [],
\* customCategories = [] and a payload with storageError = true and a
\* non-empty errorMessage.
C8_TooLargeRecovery ==
    [][\A i \in Callers :
          ( /\ loc[i].failure \in TooBig
            /\ pc[i] # "returned"
            /\ pc'[i] = "returned" )
          => /\ isInitialized'
             /\ notes' = <<>>
             /\ filteredNotes' = <<>>
             /\ customCategories' = <<>>
             /\ loc'[i].ret.kind = "result"
             /\ hasStorageError(loc'[i].ret.value)
             /\ loc'[i].ret.value.errorMessage # ""]_vars

\* C8 witness: initialize() has returned the storageError payload after a
\* getItem threw 'Row too big', with the stored records still in place
\* because every clearing call failed.
C8_Witness ==
    \E i \in Callers :
        /\ pc[i] = "returned"
        /\ loc[i].failure = "read_toobig"
        /\ loc[i].ret = Result(errorResult(MSG_INIT_LIMIT))
        /\ isInitialized /\ notes = <<>> /\ filteredNotes = <<>>
        /\ storage[STORAGE_KEY] = JSONstringify(jsonArray(storedNotes))

\* C9 as stated: when a stored record cannot be parsed and the failure does
\* not carry the too-large signature, loadInitialState returns a result with
\* storageError = true and the generic message.
C9_AsStated ==
    \A i \in Callers :
        (loc[i].failure = "parse_other" /\ loc[i].result # NoResult)
        => /\ hasStorageError(loc[i].result.value)
           /\ loc[i].result.value.errorMessage = MSG_LOAD_GENERIC

\* C10 as stated: when a load failure carries the too-large signature, at
\* whichever step it arises, loadInitialState has run its clear of all
\* storage when it returns, and returns storageError = true with the message
\* that recommends avoiding large images.
C10_AsStated ==
    [][\A i \in Callers :
          ( /\ loc[i].result = NoResult
            /\ loc'[i].result # NoResult
            /\ loc'[i].failure \in TooBig )
          => /\ pc[i] = "loadClear"
             /\ storage' \in {emptyStorage, storage}
             /\ hasStorageError(loc'[i].result.value)
             /\ loc'[i].result.value.errorMessage = MSG_LOAD_LIMIT]_vars

----------------------------------------------------------------------------
(* Properties of the persistence gateway *)

\* The notes addNote can create from Drafts and the flag commands can turn
\* them into, and the collections of them
SavedNotes ==
    { [id |-> generateId(t, 0), title |-> d.title, content |-> d.content,
       category |-> d.category, isPinned |-> p, isDeleted |-> x,
       createdAt |-> t, updatedAt |-> u] :
        d \in Drafts, t \in 0..MaxClock, u \in 0..MaxClock,
        p \in BOOLEAN, x \in BOOLEAN }

SavedCollections == UNION { [1..n -> SavedNotes] : n \in 0..MaxNotes }

SavedRegistries == { <<>>, <<TRAVEL>> }

\* The step in which loadInitialState returns after its three reads succeeded
loadReturns(i) ==
    pc[i] = "parse" /\ loc[i].result = NoResult /\ loc'[i].result # NoResult

C12_SaveOutcome ==
    [][\A key \in Keys : \A value \in pending[key] :
          pending' = [pending EXCEPT ![key] = @ \ {value}]
          => /\ history'.returned[key] \in {{TRUE}, {FALSE}}
             /\ history'.returned[key] = {TRUE} => storage'[key] = value
             /\ history'.returned[key] = {FALSE} => storage' = storage
             /\ \A other \in Keys \ {key} : storage'[other] = storage[other]]_vars

\* C12 witness: the save of a changed collection has returned false and the
\* notes record still holds the text of the earlier collection.
C12_Witness ==
    /\ history.returned[STORAGE_KEY] = {FALSE}
    /\ notes # <<>>
    /\ stringTruthy(storage[STORAGE_KEY])
    /\ storage[STORAGE_KEY] # JSONstringify(jsonArray(notes))
    /\ pending = noWrites

----------------------------------------------------------------------------
(* Properties of the note commands *)

\* C13 as stated: no two notes of the collection have the same id.
C13_AsStated ==
    \A i, j \in DOMAIN notes : i # j => notes[i].id # notes[j].id

\* C14 as stated: addNote(draft) puts exactly one new note at the head of
\* the collection, with an id that no note of the collection has or has had
\* and with the draft's title, content, category, isPinned and isDeleted;
\* the notes that were there stay unchanged and in their order behind it.
C14_AsStated ==
    [][\A note \in WideDrafts, random \in Randoms, tick \in Ticks :
          addNote(note, random, tick)
          => /\ Len(notes') = Len(notes) + 1
             /\ Tail(notes') = notes
             /\ Head(notes').id \notin history.seen
             /\ \A f \in DOMAIN note : Head(notes')[f] = note[f]]_vars

\* C15 as stated: the note created by addNote has createdAt equal to
\* updatedAt, also when the clock advances between the two readings.
C15_AsStated ==
    [][\A note \in WideDrafts, random \in Randoms, tick \in Ticks :
          addNote(note, random, tick)
          => Head(notes').createdAt = Head(notes').updatedAt]_vars

\* C16 as stated: every note of the collection has updatedAt >= createdAt.
C16_AsStated ==
    \A k \in DOMAIN notes : notes[k].updatedAt >= notes[k].createdAt

\* C17 as stated: no note of the collection has the category 'all'.
C17_AsStated ==
    \A k \in DOMAIN notes : notes[k].category # ALL

\* C18: an id-keyed mutation called with an id that no note of the
\* collection has leaves notes, filteredNotes, customCategories and the
\* selectors as they were, also when updateNote's patch carries a category
\* that is not registered.
C18_NotFoundIsNoOp ==
    [][\A id \in NoteIds :
          ( /\ id \notin idsOf(notes)
            /\ \/ \E noteUpdates \in WidePatches : updateNote(id, noteUpdates)
               \/ deleteNote(id)
               \/ restoreNote(id)
               \/ permanentlyDeleteNote(id)
               \/ pinNote(id)
               \/ unpinNote(id) )
          => UNCHANGED <<notes, filteredNotes, customCategories,
                         activeCategory, searchQuery>>]_vars

\* C18 witness: the collection is empty and never held a note, and a
\* mutation against an id has scheduled a save of it.
C18_Witness ==
    /\ notes = <<>>
    /\ filteredNotes = <<>>
    /\ history.seen = {}
    /\ pending[STORAGE_KEY] = {JSONstringify(jsonArray(<<>>))}

\* The note passes the current category and search selectors
matchesSelectors(note) ==
    /\ activeCategory # ALL => categoryMatches(note, activeCategory)
    /\ truthy(trim(searchQuery)) => matchesQuery(note, searchText(searchQuery))

\* What C19 says of a deleteNote(id) step and of the restoreNote(id) that
\* follows it
deleteThenRestore(id) ==
    LET restored == setDeleted(notes', id, FALSE)
        view == filterNotes(restored, activeCategory, searchQuery)
    IN  /\ Len(notes') = Len(notes)
        /\ \A k \in DOMAIN notes :
              IF notes[k].id = id
              THEN notes'[k] = [notes[k] EXCEPT !.isDeleted = TRUE]
              ELSE notes'[k] = notes[k]
        /\ id \notin idsOf(filteredNotes')
        /\ restored = notes
        /\ \A k \in DOMAIN restored :
              restored[k].id = id
              => /\ ~restored[k].isDeleted
                 /\ matchesSelectors(restored[k]) => restored[k] \in Range(view)

\* restoreNote(id) does to the collection what deleteThenRestore supposes
restoreStep(id) ==
    restoreNote(id)
    => /\ notes' = setDeleted(notes, id, FALSE)
       /\ filteredNotes' = filterNotes(notes', activeCategory, searchQuery)

\* C19 as stated: deleteNote(id) on an existing note keeps it in the
\* collection with isDeleted = true and out of filteredNotes; the
\* restoreNote(id) that follows returns the collection to its value before
\* the delete, with the note in filteredNotes again when it passes the
\* selectors.
C19_AsStated ==
    [][\A id \in NoteIds :
          /\ (id \in idsOf(notes) /\ deleteNote(id)) => deleteThenRestore(id)
          /\ restoreStep(id)]_vars

\* C19 amended: the same, for an existing note that is not in the trash
\* when deleteNote(id) is called.
C19_DeleteRestore ==
    [][\A id \in NoteIds :
          /\ ( /\ \E k \in DOMAIN notes : notes[k].id = id
               /\ \A k \in DOMAIN notes : notes[k].id = id => ~notes[k].isDeleted
               /\ deleteNote(id) )
             => deleteThenRestore(id)
          /\ restoreStep(id)]_vars

\* C19 witness: the stored note that was live is in the trash and out of
\* the view while its category is selected.
C19_Witness ==
    /\ activeCategory = WORK
    /\ filteredNotes = <<>>
    /\ \E k \in DOMAIN notes :
          /\ notes[k].id = generateId(0, 1)
          /\ notes[k].category = WORK
          /\ notes[k].isDeleted

\* C20 as stated: once permanentlyDeleteNote(id) has removed a note, no
\* note with that id is in the collection, then or at any later time.
C20_AsStated ==
    \A id \in history.purged : id \notin idsOf(notes)

----------------------------------------------------------------------------
(* Properties of the custom-category registry *)

\* C21: in every state the custom-category registry holds no name twice,
\* whatever addCustomCategory, removeCustomCategory, addNote and updateNote
\* calls have been made, also when two of them in immediate succession
\* bring the same new category.
C21_NoDuplicateCategory ==
    \A i, j \in DOMAIN customCategories :
        i # j => customCategories[i] # customCategories[j]

\* C21 witness: addNote with the new category 'travel' was followed by an
\* updateNote with the same category before any write of the first call
\* completed: both collections and the registry are on their way to storage.
C21_Witness ==
    /\ customCategories = <<TRAVEL>>
    /\ pending[CUSTOM_CATEGORIES_KEY] = {JSONstringify(jsonArray(<<TRAVEL>>))}
    /\ Cardinality(pending[STORAGE_KEY]) = 2
    /\ \A text \in pending[STORAGE_KEY] :
          \A k \in DOMAIN JSONparse(text) : JSONparse(text)[k].category = TRAVEL
    /\ storage = emptyStorage

\* What C22 says of a step that saves a note with the category `category`
registersCategory(category) ==
    /\ arrayIncludes(customCategories', category)
    /\ \E k \in DOMAIN notes' : notes'[k].category = category
    /\ filteredNotes' = filterNotes(notes', activeCategory, searchQuery)
    /\ JSONstringify(jsonArray(customCategories')) \in pending'[CUSTOM_CATEGORIES_KEY]

\* C22 as stated: addNote(draft), or updateNote(id, patch) on an existing
\* note, with a category that is none of 'all', 'personal', 'work', 'family'
\* and is not in the registry, leaves the category in the registry next to
\* the updated notes and filteredNotes, and schedules a write of the registry.
C22_AsStated ==
    [][/\ \A note \in BurstDrafts :
             ( /\ ~isBuiltin(note.category)
               /\ ~arrayIncludes(customCategories, note.category)
               /\ addNote(note, 0, 0) )
             => registersCategory(note.category)
       /\ \A id \in BurstIds, noteUpdates \in BurstPatches :
             ( /\ id \in idsOf(notes)
               /\ ~isBuiltin(noteUpdates.category)
               /\ ~arrayIncludes(customCategories, noteUpdates.category)
               /\ updateNote(id, noteUpdates) )
             => registersCategory(noteUpdates.category)]_vars

\* C22 amended: the same, for a category that has a character other than
\* white space.
C22_RegistersCategory ==
    [][/\ \A note \in BurstDrafts :
             ( /\ ~isBuiltin(note.category)
               /\ truthy(trim(note.category))
               /\ ~arrayIncludes(customCategories, note.category)
               /\ addNote(note, 0, 0) )
             => registersCategory(note.category)
       /\ \A id \in BurstIds, noteUpdates \in BurstPatches :
             ( /\ id \in idsOf(notes)
               /\ ~isBuiltin(noteUpdates.category)
               /\ truthy(trim(noteUpdates.category))
               /\ ~arrayIncludes(customCategories, noteUpdates.category)
               /\ updateNote(id, noteUpdates) )
             => registersCategory(noteUpdates.category)]_vars

\* C22 witness: the note was first saved with another category, and the
\* updateNote that gave it 'travel' has left 'travel' in the registry; the
\* writes of the collection and of the registry are in flight.
C22_Witness ==
    /\ customCategories = <<TRAVEL>>
    /\ notes # <<>>
    /\ notes[1].category = TRAVEL
    /\ notes[1].title = <<"b">>
    /\ pending[STORAGE_KEY] = {JSONstringify(jsonArray(notes))}
    /\ pending[CUSTOM_CATEGORIES_KEY] = {JSONstringify(jsonArray(<<TRAVEL>>))}
    /\ stringTruthy(storage[STORAGE_KEY])
    /\ JSONparse(storage[STORAGE_KEY])[1].category = BLANK

\* C23: removeCustomCategory(name) takes name out of the registry and
\* leaves the collection, each note's category included, and filteredNotes
\* as they were: a note tagged with name keeps that category.
C23_RemoveKeepsNotes ==
    [][\A category \in {TRAVEL} :
          removeCustomCategory(category)
          => /\ ~arrayIncludes(customCategories', category)
             /\ notes' = notes
             /\ filteredNotes' = filteredNotes]_vars

\* C23 witness: 'travel' was registered and written to storage, a note is
\* tagged with it, and the registry is empty again with its write in flight.
C23_Witness ==
    /\ customCategories = <<>>
    /\ notes # <<>>
    /\ notes[1].category = TRAVEL
    /\ filteredNotes = notes
    /\ storage[CUSTOM_CATEGORIES_KEY] = JSONstringify(jsonArray(<<TRAVEL>>))
    /\ pending[CUSTOM_CATEGORIES_KEY] = {JSONstringify(jsonArray(<<>>))}

----------------------------------------------------------------------------
(* Properties of resetAppData and of the Ready state *)

C25_StaysReady ==
    [][isInitialized => isInitialized']_vars

\* C25 witness: the store is Ready after resetAppData() returned true to
\* one screen and a further initialize() returned at once to the other.
C25_Witness ==
    /\ isInitialized
    /\ pc["layout"] = "returned"
    /\ loc["layout"].ret = Boolean(TRUE)
    /\ pc["index"] = "returned"
    /\ loc["index"].ret = Undefined

\* C26 as stated: in one session at most one initialize() call returns a
\* storageError payload, also when several screens call initialize() before
\* the first call has completed.
C26_AsStated ==
    \A i, j \in Callers :
        ( /\ i # j
          /\ loc[i].ret.kind = "result"
          /\ hasStorageError(loc[i].ret.value) )
        => ~(loc[j].ret.kind = "result" /\ hasStorageError(loc[j].ret.value))

\* C30 as stated: once the store is Ready, notes, customCategories and
\* isDarkMode change only through a mutation command or resetAppData: a step
\* of an initialize() call that was started before the store became Ready
\* leaves them as they are.
C30_AsStated ==
    [][\A i \in Callers :
          (isInitialized /\ pc'[i] # pc[i] /\ loc[i].branch # "reset")
          => UNCHANGED <<notes, customCategories, isDarkMode>>]_vars

----------------------------------------------------------------------------
(* Properties of the writes *)

C28_ViewCommandsFrame ==
    [][/\ \A category \in {ALL, WORK} :
             setActiveCategory(category)
             => /\ activeCategory' = category
                /\ UNCHANGED <<notes, customCategories, isDarkMode, isInitialized,
                               searchQuery, storage, pending>>
       /\ \A query \in {EMPTY, <<"a">>} :
             setSearchQuery(query)
             => /\ searchQuery' = query
                /\ UNCHANGED <<notes, customCategories, isDarkMode, isInitialized,
                               activeCategory, storage, pending>>]_vars

\* C28 witness: the loaded collection is shown through the category 'work'
\* and the query 'a'; nothing is in flight and the record holds what was
\* loaded.
C28_Witness ==
    /\ notes = storedNotes
    /\ activeCategory = WORK
    /\ searchQuery = <<"a">>
    /\ filteredNotes = <<storedNotes[1]>>
    /\ pending = noWrites
    /\ storage = storageOf(JSONstringify(jsonArray(storedNotes)), NULL, NULL)

\* C29: the writes two mutations hand over in immediate succession are
\* independent of each other.  Each write in flight can be the next to
\* complete, whenever it was handed over; a step that takes a write out of
\* flight is the completion of that one write, which puts its text in the
\* record or fails, and leaves the other writes in flight.  So the record
\* can end up holding the collection of the first mutation.
C29_IndependentWrites ==
    /\ [](\A key \in Keys : \A value \in pending[key] :
              ENABLED setItemCompletes(key, value, TRUE))
    /\ [][\A key \in Keys :
              LET gone == pending[key] \ pending'[key]
              IN  gone # {}
                  => /\ Cardinality(gone) = 1
                     /\ pending'[key] = pending[key] \ gone
                     /\ \A value \in gone :
                           storage'[key] = value \/ storage' = storage]_vars

\* C29 witness: addNote and then updateNote were called on the fresh store,
\* both writes of the notes record have completed, every save so far has
\* returned true, and the record holds the collection addNote left, not the
\* collection the store holds.
C29_Witness ==
    /\ pending = noWrites
    /\ history.returned[STORAGE_KEY] = {TRUE}
    /\ Len(notes) = 1
    /\ notes[1].category = BLANK
    /\ stringTruthy(storage[STORAGE_KEY])
    /\ JSONparse(storage[STORAGE_KEY]) = <<[notes[1] EXCEPT !.category = TRAVEL]>>

\* C31 as stated: whether a write succeeds or fails never shows in memory.
\* The completion of a write, with either outcome, changes no field of the
\* store and hands no write to the storage (a failed write is not retried);
\* and the collection a load puts into the store was not written by a save
\* of this session: it is the collection the session found, or none.
C31_AsStated ==
    [][/\ \A key \in Keys :
             pending[key] \ pending'[key] # {}
             => /\ UNCHANGED store
                /\ \A k \in Keys : pending'[k] \subseteq pending[k]
       /\ \A i \in Callers :
             (loadReturns(i) /\ pc'[i] = "returned")
             => loc[i].savedNotesString \in
                    {NULL, JSONstringify(jsonArray(storedNotes))}]_vars

\* C32 as stated: when resetAppData() returns true, the notes record, the
\* theme record and the categories record are all absent from the storage.
C32_AsStated ==
    [][\A i \in Callers :
          ( /\ loc[i].branch = "reset"
            /\ pc'[i] = "returned"
            /\ pc[i] # "returned"
            /\ loc'[i].ret = Boolean(TRUE) )
          => storage' = emptyStorage]_vars

\* C33 as stated: when resetAppData() has returned true, no command has
\* been called since and no write is in flight any more, the storage holds
\* no notes record and no categories record.
C33_AsStated ==
    \A i \in Callers :
        ( /\ pc[i] = "returned"
          /\ loc[i].ret = Boolean(TRUE)
          /\ \A j \in Callers \ {i} : pc[j] = "idle"
          /\ notes = <<>>
          /\ pending = noWrites )
        => /\ storage[STORAGE_KEY] = NULL
           /\ storage[CUSTOM_CATEGORIES_KEY] = NULL

\* C34 as stated: when initialize() returns a storageError payload, the
\* notes record, the theme record and the categories record are absent from
\* the storage, whatever made the load fail.
C34_AsStated ==
    [][\A i \in Callers :
          ( /\ pc'[i] = "returned"
            /\ pc[i] # "returned"
            /\ loc'[i].ret.kind = "result"
            /\ hasStorageError(loc'[i].ret.value) )
          => storage' = emptyStorage]_vars

\* C35 as stated: updateNote, deleteNote, restoreNote,
\* permanentlyDeleteNote, pinNote or unpinNote called with an id that no note
\* of the collection has hands no write to the storage.
C35_AsStated ==
    [][\A id \in NoteIds :
          ( /\ id \notin idsOf(notes)
            /\ \/ \E noteUpdates \in WidePatches : updateNote(id, noteUpdates)
               \/ deleteNote(id)
               \/ restoreNote(id)
               \/ permanentlyDeleteNote(id)
               \/ pinNote(id)
               \/ unpinNote(id) )
          => pending' = pending]_vars

----------------------------------------------------------------------------
(* Properties of a load that succeeds *)

\* C36: an initialize() whose load met no failure sets notes, isDarkMode and
\* customCategories to the values of the three records it read (the empty
\* list, false and the empty list for a record that is absent), sets
\* filteredNotes to the filter/sort of the loaded notes, marks the store
\* initialized and returns the loaded data without storageError.
C36_LoadSetsState ==
    [][\A i \in Callers :
          (loadReturns(i) /\ loc'[i].failure = "none" /\ pc'[i] = "returned")
          => LET read == loc[i]
                 ret == loc'[i].ret
             IN  /\ notes' = IF read.savedNotesString = NULL THEN <<>>
                              ELSE JSONparse(read.savedNotesString)
                 /\ isDarkMode' = IF read.savedThemeString = NULL THEN FALSE
                                   ELSE JSONparse(read.savedThemeString)
                 /\ customCategories' = IF read.savedCategoriesString = NULL THEN <<>>
                                         ELSE JSONparse(read.savedCategoriesString)
                 /\ filteredNotes' = filterNotes(notes', activeCategory', searchQuery')
                 /\ isInitialized'
                 /\ ret.kind = "result"
                 /\ ~hasStorageError(ret.value)
                 /\ ret.value.notes = notes']_vars

\* C36 witness: initialize() has returned the stored collection, the dark
\* theme and the registry with 'travel'; the view shows the one stored note
\* that is not in the trash.
C36_Witness ==
    /\ pc["index"] = "returned"
    /\ loc["index"].failure = "none"
    /\ loc["index"].ret.kind = "result"
    /\ loc["index"].ret.value.notes = storedNotes
    /\ notes = storedNotes
    /\ isDarkMode
    /\ customCategories = <<TRAVEL>>
    /\ filteredNotes = <<storedNotes[1]>>

----------------------------------------------------------------------------
(* Frame properties of the note commands *)

\* C37: updateNote(id, patch) on an existing note gives the fields named in
\* the patch their patched values and sets updatedAt to the current time;
\* the note's other fields, its position in the collection and every note
\* with another id stay as they were.
C37_UpdateFrame ==
    [][\A id \in NoteIds, noteUpdates \in WidePatches :
          (id \in idsOf(notes) /\ updateNote(id, noteUpdates))
          => /\ Len(notes') = Len(notes)
             /\ \A k \in DOMAIN notes :
                   IF notes[k].id = id
                   THEN /\ notes'[k].updatedAt = now
                        /\ \A f \in DOMAIN notes[k] \ {"updatedAt"} :
                              notes'[k][f] = IF f \in DOMAIN noteUpdates
                                             THEN noteUpdates[f] ELSE notes[k][f]
                   ELSE notes'[k] = notes[k]]_vars

\* C37 witness: the first stored note was given a later createdAt by a patch
\* that also carried updatedAt = 0; its updatedAt is the time of the call,
\* its other fields and the second note are as they were loaded.
C37_Witness ==
    /\ Len(notes) = 2
    /\ notes[1] = [storedNotes[1] EXCEPT !.createdAt = MaxClock, !.updatedAt = now]
    /\ notes[2] = storedNotes[2]
    /\ pending[STORAGE_KEY] = {JSONstringify(jsonArray(notes))}

\* C38: deleteNote, restoreNote, pinNote and unpinNote set the one flag they
\* name on the notes with the id and change nothing else: the other fields of
\* the note, updatedAt included, the notes with another id, the order of the
\* collection, customCategories and the selectors stay as they were; and a
\* call that finds the flag already set as it sets it leaves the store as it
\* is, so that calling the operation twice gives the state of calling it once.
\* (A step of these commands puts a notes write in flight and does not read
\* the clock.)
C38_FlagFrame ==
    [][\A id \in NoteIds :
          \A op \in {"deleteNote", "restoreNote", "pinNote", "unpinNote"} :
             LET flag == IF op \in {"deleteNote", "restoreNote"}
                         THEN "isDeleted" ELSE "isPinned"
                 value == op \in {"deleteNote", "pinNote"}
             IN  ( /\ pending'[STORAGE_KEY] # {}
                   /\ now' = now
                   /\ CASE op = "deleteNote" -> deleteNote(id)
                        [] op = "restoreNote" -> restoreNote(id)
                        [] op = "pinNote" -> pinNote(id)
                        [] OTHER -> unpinNote(id) )
                 => /\ Len(notes') = Len(notes)
                    /\ \A k \in DOMAIN notes :
                          IF notes[k].id = id
                          THEN notes'[k] = [notes[k] EXCEPT ![flag] = value]
                          ELSE notes'[k] = notes[k]
                    /\ UNCHANGED <<customCategories, activeCategory, searchQuery>>
                    /\ (\A k \in DOMAIN notes : notes[k].id = id => notes[k][flag] = value)
                       => UNCHANGED store]_vars

\* C38 witness: the live stored note was pinned and moved to the trash, the
\* other one was unpinned and restored; apart from the two flags both notes
\* are as they were loaded, in the same order.
C38_Witness ==
    /\ Len(notes) = 2
    /\ notes[1] = [storedNotes[1] EXCEPT !.isPinned = TRUE, !.isDeleted = TRUE]
    /\ notes[2] = [storedNotes[2] EXCEPT !.isPinned = FALSE, !.isDeleted = FALSE]
    /\ filteredNotes = <<notes[2]>>

\* C39 as stated: the set of note ids shrinks only through
\* permanentlyDeleteNote: a step of any other command, and the completion of
\* a write, keeps every id that was in the collection before it.
C39_AsStated ==
    [][\/ \E id \in NoteIds : permanentlyDeleteNote(id)
       \/ idsOf(notes) \subseteq idsOf(notes')]_vars

----------------------------------------------------------------------------
(* The names in the registry *)

\* C40 as stated: the registry holds none of the built-in names 'personal',
\* 'work', 'family', not the selector 'all', and no name that is empty or
\* made of whitespace only.
C40_AsStated ==
    \A i \in DOMAIN customCategories :
        /\ customCategories[i] \notin {PERSONAL, WORK, FAMILY, ALL}
        /\ truthy(trim(customCategories[i]))

====
